---- MODULE Spec2Model ----
(***************************************************************************)
(* The optional aeon-memory backend of openclaw:                           *)
(*   - the shared loader (ensureAeonLoaded, loadAeonMemoryAsync,           *)
(*     triggerAeonLoad, getAeonPlugin, _resetForTesting), and              *)
(*   - the injected-transcript write router                                *)
(*     (appendInjectedAssistantMessageToTranscript), which keeps its own   *)
(*     module-level AeonMemoryPlugin / aeonLoadAttempted pair.             *)
(* JavaScript runs one handler at a time: every action below is one        *)
(* synchronous call, or one promise reaction, run to completion.           *)
(***************************************************************************)
EXTENDS Integers, Sequences, FiniteSets, TLC

\* ------------------------------------------------------------------ bounds
MaxResets == 1      \* calls of _resetForTesting in one behaviour
MaxWrites == 2      \* router calls in a behaviour of the router alone
MaxProcessWrites == 1   \* router calls in a behaviour of the whole process
MaxReadWrites == 2  \* router calls in a behaviour that also reads
MaxLiveWrites == 2  \* router calls in a behaviour under fairness

\* ------------------------------------------------------------------ values
Null == "null"
Undefined == "undefined"
Factory == "AeonMemory"          \* the module's AeonMemory export
NoSession == "none"              \* params.sessionId absent
SessionIds == {"s1"}

\* What resolving "aeon-memory" does in this process.
ModuleKinds == {"missing", "initThrows", "noExport", "ok"}

VARIABLES
  \* --- environment
  moduleKind,        \* what import("aeon-memory") finds
  requireWorks,      \* whether createRequire()("aeon-memory") sees the same module
  instance,          \* AeonMemory.getInstance("main"): "null", "unavailable", "available"
  \* --- shared loader (module state)
  _plugin,
  _loaded,
  \* --- shared loader (execution state and history)
  epoch,             \* number of _resetForTesting calls so far
  inflight,          \* pending import() calls of the shared loader
  awaits,            \* callers suspended on or about to resume from loadAeonMemoryAsync
  resumed,           \* what the latest caller to resume from its await saw
  lastCall,          \* how the latest synchronous loader call ended
  forgotten,         \* settled promises that nobody holds: whose they are, how they settled
  loadsStarted,      \* resolutions of "aeon-memory" started in this process
  \* --- injected-transcript router (module state)
  AeonMemoryPlugin,
  aeonLoadAttempted,
  \* --- injected-transcript router (execution state and history)
  deferred,          \* the pending import() of the router, with what its closure captured
  legacy,            \* messages the legacy SessionManager holds, in append order
  saved,             \* calls of aeon.saveTurn, in call order
  writes,            \* one record per call of the router, in call order
  \* --- read router (history)
  lastRead,          \* what the latest readSessionMessages call did and returned
  \* --- tool result guard
  pending,           \* ids of the tool calls appended and not yet answered, in order
  guardLog,          \* what the guarded appendMessage recorded, and where, in order
  lastGuardOp        \* the latest operation made through the guard

envVars == <<moduleKind, requireWorks, instance>>
loaderVars == <<_plugin, _loaded, epoch, inflight, awaits, resumed, lastCall>>
routerVars == <<AeonMemoryPlugin, aeonLoadAttempted, deferred, legacy, saved, writes>>
readVars == <<lastRead>>
guardVars == <<pending, guardLog, lastGuardOp>>
vars == <<envVars, loaderVars, routerVars, readVars, guardVars, forgotten, loadsStarted>>

\* ------------------------------------------------ resolving the module
\* import("aeon-memory") / _require("aeon-memory"): a missing package and a
\* module that throws while initialising both surface as a rejection/throw.
ImportSettles(kind) ==
  IF kind \in {"missing", "initThrows"} THEN "rejected" ELSE "fulfilled"

\* m.AeonMemory
ExportOf(kind) == IF kind = "ok" THEN Factory ELSE Undefined

\* v ?? null
Coalesce(v) == IF v = Undefined THEN Null ELSE v

\* What the synchronous require sees: the sync loader does not see a module
\* that only import() can resolve.
RequireKind == IF requireWorks THEN moduleKind ELSE "missing"

\* Variant of TryLoad: the load without its try/catch.
TryLoadNoCatch(kind) ==
  [raised |-> ImportSettles(kind) = "rejected",
   value  |-> IF ImportSettles(kind) = "rejected" THEN Null ELSE Coalesce(ExportOf(kind))]

\* try { const m = <load>; _plugin = m.AeonMemory ?? null } catch { _plugin = null }
\* raised: whether the block lets an exception out; value: what _plugin holds after it.
TryLoad(kind) ==
  [raised |-> FALSE,
   value  |-> IF ImportSettles(kind) = "rejected" THEN Null ELSE Coalesce(ExportOf(kind))]

NoRead == [sessionId |-> NoSession, result |-> <<>>, source |-> "none",
           asked |-> NoSession, instance |-> "null",
           writes |-> 0, saves |-> 0, loadState |-> "none"]
NoCall == [op |-> "none", raised |-> FALSE, ret |-> Undefined]
NoResume == [own |-> FALSE, settled |-> "none", pending |-> FALSE,
             seen |-> Null, final |-> Null]

\* ------------------------------------------------------------------ Init
Init ==
  /\ moduleKind \in ModuleKinds
  /\ requireWorks \in (IF moduleKind = "ok" THEN BOOLEAN ELSE {TRUE})
  /\ instance = "null"
  /\ _plugin = Null
  /\ _loaded = FALSE
  /\ epoch = 0
  /\ inflight = {}
  /\ awaits = {}
  /\ resumed = NoResume
  /\ lastCall = NoCall
  /\ forgotten = {}
  /\ loadsStarted = 0
  /\ AeonMemoryPlugin = Null
  /\ aeonLoadAttempted = FALSE
  /\ deferred = [state |-> "none", sessionId |-> NoSession, message |-> 0]
  /\ legacy = <<>>
  /\ saved = <<>>
  /\ writes = <<>>
  /\ lastRead = NoRead
  /\ pending = <<>>
  /\ guardLog = <<>>
  /\ lastGuardOp = "none"

\* --------------------------------------------------------- shared loader
\* Variant of ensureAeonLoaded: the `if (_loaded) return _plugin` guard left out.
ensureAeonLoadedNoGuard ==
  LET r == TryLoad(RequireKind) IN
  /\ _loaded' = TRUE
  /\ _plugin' = r.value
  /\ loadsStarted' = IF _loaded THEN loadsStarted ELSE loadsStarted + 1
  /\ lastCall' = [op |-> "ensureAeonLoaded", raised |-> r.raised, ret |-> r.value]
  /\ UNCHANGED <<envVars, routerVars, readVars, guardVars, epoch, inflight, awaits, resumed, forgotten>>

\* ensureAeonLoaded(): synchronous, returns _plugin.
ensureAeonLoaded ==
  /\ IF _loaded
       THEN /\ lastCall' = [op |-> "ensureAeonLoaded", raised |-> FALSE, ret |-> _plugin]
            /\ UNCHANGED <<_plugin, _loaded, loadsStarted>>
       ELSE LET r == TryLoad(RequireKind) IN
            /\ _loaded' = TRUE
            /\ _plugin' = r.value
            /\ loadsStarted' = loadsStarted + 1
            /\ lastCall' = [op |-> "ensureAeonLoaded", raised |-> r.raised, ret |-> r.value]
  /\ UNCHANGED <<envVars, routerVars, readVars, guardVars, epoch, inflight, awaits, resumed, forgotten>>

\* loadAeonMemoryAsync(): the synchronous part of the async function, up to
\* its return or its first await. The caller awaits the returned promise.
loadAeonMemoryAsync ==
  /\ IF _loaded
       THEN /\ awaits' = awaits \cup {[own |-> FALSE, epoch |-> epoch]}
            /\ UNCHANGED <<_loaded, inflight, loadsStarted>>
       ELSE /\ _loaded' = TRUE
            /\ inflight' = inflight \cup {[via |-> "loadAeonMemoryAsync", epoch |-> epoch]}
            /\ awaits' = awaits \cup {[own |-> TRUE, epoch |-> epoch]}
            /\ loadsStarted' = loadsStarted + 1
  /\ UNCHANGED <<envVars, routerVars, readVars, guardVars, _plugin, epoch, resumed, lastCall, forgotten>>

\* triggerAeonLoad(): starts the async IIFE and returns; nobody holds its promise.
triggerAeonLoad ==
  /\ IF _loaded
       THEN UNCHANGED <<_loaded, inflight, loadsStarted>>
       ELSE /\ _loaded' = TRUE
            /\ inflight' = inflight \cup {[via |-> "triggerAeonLoad", epoch |-> epoch]}
            /\ loadsStarted' = loadsStarted + 1
  /\ lastCall' = [op |-> "triggerAeonLoad", raised |-> FALSE, ret |-> Undefined]
  /\ UNCHANGED <<envVars, routerVars, readVars, guardVars, _plugin, epoch, awaits, resumed, forgotten>>

\* Variant of LoadSettles: the import never settles, the load stays pending.
LoadNeverSettles(l) ==
  /\ FALSE
  /\ UNCHANGED vars

\* The import() of a pending shared load settles and the rest of the async
\* body runs. A load started by loadAeonMemoryAsync settles the promise its
\* caller awaits; the promise of triggerAeonLoad's IIFE has no handler.
LoadSettles(l) ==
  LET r == TryLoad(moduleKind) IN
  /\ inflight' = inflight \ {l}
  /\ _plugin' = r.value
  /\ IF l.via = "loadAeonMemoryAsync"
       THEN /\ awaits' = awaits \ {[own |-> TRUE, epoch |-> l.epoch]}
            /\ resumed' = [own |-> TRUE,
                            settled |-> IF r.raised THEN "rejected" ELSE "fulfilled",
                            pending |-> \E k \in inflight' : k.epoch = l.epoch,
                            seen |-> r.value, final |-> r.value]
            /\ UNCHANGED forgotten
       ELSE /\ forgotten' = forgotten \cup
                 {[of |-> l.via, settled |-> IF r.raised THEN "rejected" ELSE "fulfilled"]}
            /\ UNCHANGED <<awaits, resumed>>
  /\ UNCHANGED <<envVars, routerVars, readVars, guardVars, _loaded, epoch, lastCall, loadsStarted>>

\* The value the load attempt of epoch e ends with: what its pending import
\* will store, or what is cached once nothing of it is pending.
FinalValue(e) ==
  IF \E k \in inflight : k.epoch = e THEN TryLoad(moduleKind).value ELSE _plugin

\* A caller whose loadAeonMemoryAsync() returned at `if (_loaded) return`
\* resumes from its await: the promise was fulfilled when the call returned.
AwaitResumes(a) ==
  /\ ~a.own
  /\ awaits' = awaits \ {a}
  /\ resumed' = [own |-> FALSE, settled |-> "fulfilled",
                  pending |-> \E k \in inflight : k.epoch = a.epoch,
                  seen |-> _plugin, final |-> FinalValue(a.epoch)]
  /\ UNCHANGED <<envVars, routerVars, readVars, guardVars, _plugin, _loaded, epoch, inflight, lastCall,
                 forgotten, loadsStarted>>

\* Variant of getAeonPlugin: a getter that loads the module when nothing has.
getAeonPluginLoads ==
  /\ IF _loaded
       THEN /\ lastCall' = [op |-> "getAeonPlugin", raised |-> FALSE, ret |-> _plugin]
            /\ UNCHANGED <<_plugin, _loaded, loadsStarted>>
       ELSE LET r == TryLoad(RequireKind) IN
            /\ _loaded' = TRUE
            /\ _plugin' = r.value
            /\ loadsStarted' = loadsStarted + 1
            /\ lastCall' = [op |-> "getAeonPlugin", raised |-> r.raised, ret |-> r.value]
  /\ UNCHANGED <<envVars, routerVars, readVars, guardVars, epoch, inflight, awaits, resumed, forgotten>>

\* getAeonPlugin(): returns _plugin.
getAeonPlugin ==
  /\ lastCall' = [op |-> "getAeonPlugin", raised |-> FALSE, ret |-> _plugin]
  /\ UNCHANGED <<envVars, routerVars, readVars, guardVars, _plugin, _loaded, epoch, inflight, awaits,
                 resumed, forgotten, loadsStarted>>

\* _resetForTesting()
_resetForTesting ==
  /\ epoch < MaxResets
  /\ _plugin' = Null
  /\ _loaded' = FALSE
  /\ epoch' = epoch + 1
  /\ UNCHANGED <<envVars, routerVars, readVars, guardVars, inflight, awaits, resumed, lastCall,
                 forgotten, loadsStarted>>

LoaderNext ==
  \/ ensureAeonLoaded
  \/ loadAeonMemoryAsync
  \/ triggerAeonLoad
  \/ \E l \in inflight : LoadSettles(l)
  \/ \E a \in awaits : AwaitResumes(a)
  \/ getAeonPlugin
  \/ _resetForTesting

\* The shared loader on its own, under a test harness that may reset it.
LoaderSpec == Init /\ [][LoaderNext]_vars

\* ----------------------------------------- injected-transcript router
\* messageBody of the n-th write: the n-th call passes the text n, so that
\* distinct writes carry distinct messages.
MessageBody(n) == [role |-> "assistant", text |-> n]

\* JavaScript truthiness of the cached plugin reference.
Truthy(v) == v \notin {Null, Undefined}

\* The state of the router's load attempt, as a write finds it.
RouterLoadState ==
  IF ~aeonLoadAttempted THEN "notAttempted"
  ELSE IF deferred.state = "pending" THEN "pending" ELSE "resolved"

\* What can throw during one call. Each call path meets at most one throw.
Faults == {"none", "open", "append", "getInstance", "isAvailable", "saveTurn"}

\* const aeon = AeonMemoryPlugin.getInstance("main");
\* if (aeon && aeon.isAvailable()) { aeon.saveTurn(sessionId, message); <then> } else { <else> }
\* raised: an exception leaves the block; called: saveTurn was entered;
\* taken: the branch that ran to its end.
ProbeAndSave(plugin, inst, fault) ==
  IF ~Truthy(plugin) \/ fault = "getInstance"
    THEN [raised |-> TRUE, called |-> FALSE, taken |-> "none"]
  ELSE IF inst = "null"
    THEN [raised |-> FALSE, called |-> FALSE, taken |-> "else"]
  ELSE IF fault = "isAvailable"
    THEN [raised |-> TRUE, called |-> FALSE, taken |-> "none"]
  ELSE IF inst = "unavailable"
    THEN [raised |-> FALSE, called |-> FALSE, taken |-> "else"]
  ELSE IF fault = "saveTurn"
    THEN [raised |-> TRUE, called |-> TRUE, taken |-> "none"]
  ELSE [raised |-> FALSE, called |-> TRUE, taken |-> "then"]

\* Variant of Branch: the sessionId test of line 77 left out.
BranchIgnoresSession(sid) ==
  IF ~aeonLoadAttempted THEN "firstLoad"
  ELSE IF Truthy(AeonMemoryPlugin) THEN "plugin"
  ELSE "noPlugin"

\* Variant of Branch: the load is started whenever no plugin is cached,
\* instead of once.
BranchReloadsWhileNoPlugin(sid) ==
  IF sid = NoSession THEN "noSession"
  ELSE IF ~Truthy(AeonMemoryPlugin) THEN "firstLoad"
  ELSE "plugin"

\* The branch of the routing conditional a write takes (lines 77-113).
Branch(sid) ==
  IF sid = NoSession THEN "noSession"
  ELSE IF ~aeonLoadAttempted THEN "firstLoad"
  ELSE IF Truthy(AeonMemoryPlugin) THEN "plugin"
  ELSE "noPlugin"

\* Variant of WriteResult: a catch block that reports success.
WriteResultSwallows(thrown, messageId) ==
  [ok |-> TRUE, messageId |-> messageId, error |-> "none"]

\* return { ok: true, messageId, message } at the end of the try block, or
\* return { ok: false, error } from the catch block (lines 115-117).
\* thrown: what was thrown inside the try block, "none" when nothing was.
WriteResult(thrown, messageId) ==
  IF thrown = "none"
    THEN [ok |-> TRUE, messageId |-> messageId, error |-> "none"]
    ELSE [ok |-> FALSE, messageId |-> <<>>, error |-> thrown]

\* appendInjectedAssistantMessageToTranscript(params), as one synchronous call.
Write(sid, fault) ==
  LET n      == Len(writes) + 1
      body   == MessageBody(n)
      opened == fault # "open"
      branch == IF opened THEN Branch(sid) ELSE "notReached"
      probe  == IF branch = "plugin"
                  THEN ProbeAndSave(AeonMemoryPlugin, instance, fault)
                  ELSE [raised |-> FALSE, called |-> FALSE, taken |-> "else"]
      \* sessionManager.appendMessage(messageBody) is reached
      appends == opened /\ ~probe.raised /\ probe.taken = "else"
      appended == appends /\ fault # "append"
      enhanced == branch = "plugin" /\ probe.taken = "then"
      thrown == IF ~opened THEN "open"
                ELSE IF probe.raised THEN fault
                ELSE IF appends /\ fault = "append" THEN "append"
                ELSE "none"
      result == WriteResult(thrown,
                  IF appended THEN <<"legacy", Len(legacy) + 1>>
                  ELSE IF enhanced THEN <<"aeon", sid>>
                  ELSE <<>>)
  IN
  /\ IF branch = "firstLoad"
       THEN /\ aeonLoadAttempted' = TRUE
            /\ deferred' = [state |-> "pending", sessionId |-> sid, message |-> body]
            /\ loadsStarted' = loadsStarted + 1
       ELSE UNCHANGED <<aeonLoadAttempted, deferred, loadsStarted>>
  /\ legacy' = IF appended THEN Append(legacy, body) ELSE legacy
  /\ saved' = IF probe.called
                THEN Append(saved, [sessionId |-> sid, message |-> body, deferred |-> FALSE,
                               stored |-> ~probe.raised])
                ELSE saved
  /\ writes' = Append(writes,
       [sessionId |-> sid,
        message   |-> body,
        loadState |-> RouterLoadState,
        plugin    |-> AeonMemoryPlugin,
        instance  |-> instance,
        fault     |-> thrown,
        appendCalled |-> appends,
        ok        |-> result.ok,
        messageId |-> result.messageId,
        error     |-> result.error])
  /\ UNCHANGED <<envVars, loaderVars, readVars, guardVars, AeonMemoryPlugin, forgotten>>

\* p.then(onFulfilled): rejected when p is, or when the handler throws.
ThenSettles(p, handlerRaised) ==
  IF p = "rejected" \/ handlerRaised THEN "rejected" ELSE "fulfilled"

\* p.catch(onRejected): the handler of lines 93-98 only logs.
CatchSettles(p) == "fulfilled"

\* Variant of RouterChain: the chain without its .catch().
RouterChainNoCatch(imported, handlerRaised) == ThenSettles(imported, handlerRaised)

\* The promise left without a handler after import(...).then(...).catch(...).
RouterChain(imported, handlerRaised) ==
  CatchSettles(ThenSettles(imported, handlerRaised))

\* The router's import("aeon-memory") settles and the reactions of lines
\* 82-98 run: on success the plugin is cached and the captured first message
\* is saved to the backend if it is available.
DeferredSettles(fault) ==
  LET imported == ImportSettles(moduleKind)
      plugin   == ExportOf(moduleKind)
      probe    == ProbeAndSave(plugin, instance, fault)
      \* the try/catch of lines 84-91 keeps every throw of the probe inside
      handlerRaised == FALSE
  IN
  /\ deferred.state = "pending"
  /\ fault \in {"none", "getInstance", "isAvailable", "saveTurn"}
  /\ deferred' = [deferred EXCEPT !.state = "done"]
  /\ AeonMemoryPlugin' = IF imported = "fulfilled" THEN plugin ELSE AeonMemoryPlugin
  /\ saved' = IF imported = "fulfilled" /\ probe.called
                THEN Append(saved, [sessionId |-> deferred.sessionId,
                                    message |-> deferred.message, deferred |-> TRUE,
                                    stored |-> ~probe.raised])
                ELSE saved
  /\ forgotten' = forgotten \cup
       {[of |-> "router", settled |-> RouterChain(imported, handlerRaised)]}
  /\ UNCHANGED <<envVars, loaderVars, readVars, guardVars, aeonLoadAttempted, legacy, writes, loadsStarted>>

\* The backend instance becomes available, unavailable or absent: its
\* lifetime is the backend's own.
InstanceChanges ==
  /\ instance' \in {"null", "unavailable", "available"} \ {instance}
  /\ UNCHANGED <<moduleKind, requireWorks, loaderVars, routerVars, readVars, guardVars,
                 forgotten, loadsStarted>>

RouterNext ==
  \/ /\ Len(writes) < MaxWrites
     /\ \E sid \in SessionIds \cup {NoSession}, fault \in Faults : Write(sid, fault)
  \/ \E fault \in Faults : DeferredSettles(fault)
  \/ InstanceChanges

\* The router on its own.
RouterSpec == Init /\ [][RouterNext]_vars

\* ---------------------------------------------------------- read router
\* readSessionMessages (gateway/session-utils.fs) is not among the sources;
\* it is modelled from section 4.2 and 4.4 of the specification and from
\* what its tests do: the first read warms up the shared loader, a read
\* peeks the cached factory.
ReadIds == SessionIds \cup {"unknown"}

\* probe(namespace): the instance if a factory is cached, getInstance returns
\* and the instance reports itself available; otherwise none.
Probe(plugin, inst) ==
  IF ~Truthy(plugin) THEN "none"
  ELSE IF inst = "available" THEN "instance"
  ELSE "none"

\* aeon.getTranscript(sessionId): the turns the backend stored for the session.
GetTranscript(sid) ==
  LET turns == SelectSeq(saved, LAMBDA e : e.sessionId = sid /\ e.stored)
  IN  [k \in 1..Len(turns) |-> turns[k].message]

\* The legacy transcript of a session: the model has one transcript file,
\* that of the known session.
ReadLegacy(sid) == IF sid \in SessionIds THEN legacy ELSE <<>>

\* Variant of RouteRead: an empty backend transcript is returned as it is.
RouteReadShortCircuits(sid, plugin, inst) ==
  IF Probe(plugin, inst) = "instance"
    THEN [result |-> GetTranscript(sid), source |-> "aeon", asked |-> sid]
    ELSE [result |-> ReadLegacy(sid), source |-> "legacy", asked |-> NoSession]

\* Variant of RouteRead: the backend transcript is put in front of the
\* legacy one.
RouteReadMerges(sid, plugin, inst) ==
  IF Probe(plugin, inst) = "instance"
    THEN [result |-> GetTranscript(sid) \o ReadLegacy(sid), source |-> "aeon",
          asked |-> sid]
    ELSE [result |-> ReadLegacy(sid), source |-> "legacy", asked |-> NoSession]

\* routeRead: the backend's transcript if the probe finds an instance and
\* the transcript is not empty, otherwise what the legacy store holds.
\* asked: the sessionId getTranscript was called with, if it was called.
RouteRead(sid, plugin, inst) ==
  LET p == Probe(plugin, inst)
      t == IF p = "instance" THEN GetTranscript(sid) ELSE <<>>
  IN  IF t # <<>>
        THEN [result |-> t, source |-> "aeon", asked |-> sid]
        ELSE [result |-> ReadLegacy(sid), source |-> "legacy",
              asked |-> IF p = "instance" THEN sid ELSE NoSession]

\* The state of the shared loader, as a read finds it.
SharedLoadState ==
  IF ~_loaded THEN "notAttempted"
  ELSE IF \E l \in inflight : l.epoch = epoch THEN "pending" ELSE "resolved"

\* readSessionMessages(sessionId): starts the load of the shared loader if
\* nothing has (fire and forget), then routes the read on what is cached now.
readSessionMessages(sid) ==
  LET r == RouteRead(sid, _plugin, instance) IN
  /\ IF _loaded
       THEN UNCHANGED <<_loaded, inflight, loadsStarted>>
       ELSE /\ _loaded' = TRUE
            /\ inflight' = inflight \cup {[via |-> "triggerAeonLoad", epoch |-> epoch]}
            /\ loadsStarted' = loadsStarted + 1
  /\ lastRead' = [sessionId |-> sid, result |-> r.result, source |-> r.source,
                  asked |-> r.asked, instance |-> instance,
                  writes |-> Len(writes), saves |-> Len(saved), loadState |-> SharedLoadState]
  /\ UNCHANGED <<envVars, routerVars, guardVars, _plugin, epoch, awaits, resumed,
                 lastCall, forgotten>>

\* The writes that reads are studied with are those in which nothing throws.
WriteFaultsSeenByReads == {"none"}

\* Reads of a process whose writes go through the injected-transcript router.
ReadNext ==
  \/ \E sid \in ReadIds : readSessionMessages(sid)
  \/ \E l \in inflight : LoadSettles(l)
  \/ /\ Len(writes) < MaxReadWrites
     /\ \E sid \in SessionIds \cup {NoSession}, fault \in WriteFaultsSeenByReads :
          Write(sid, fault)
  \/ \E fault \in WriteFaultsSeenByReads : DeferredSettles(fault)
  \/ InstanceChanges

ReadSpec == Init /\ [][ReadNext]_vars

\* ------------------------------------------------------ tool result guard
\* installSessionToolResultGuard (agents/session-tool-result-guard) is not
\* among the sources; it is modelled from section 4.3 and 6 of the
\* specification and from what its tests do. The guard is installed on one
\* session manager at construction and takes its factory from the shared
\* loader.
CallIds == {"call_1", "call_2"}

\* Where the guard records a message: probe(namespace) decides, as for a read.
GuardRoute == IF Probe(_plugin, instance) = "instance" THEN "aeon" ELSE "legacy"

GuardEntry(role, id, synthetic) ==
  [role |-> role, id |-> id, synthetic |-> synthetic, plugin |-> _plugin,
   instance |-> instance, to |-> GuardRoute]

\* Ids of the tool calls whose assistant message went through the guard.
CallsAppended == {guardLog[k].id : k \in {j \in DOMAIN guardLog : guardLog[j].role = "assistant"}}

\* sm.appendMessage({role: "assistant", content: [toolCall id]}) through the
\* guard: recorded, and the call is pending from now on.
appendAssistantToolCall(id) ==
  /\ id \notin CallsAppended
  /\ guardLog' = Append(guardLog, GuardEntry("assistant", id, FALSE))
  /\ pending' = Append(pending, id)
  /\ lastGuardOp' = "appendAssistant"
  /\ UNCHANGED <<envVars, loaderVars, routerVars, readVars, forgotten, loadsStarted>>

\* sm.appendMessage({role: "toolResult", toolCallId: id}) through the guard:
\* recorded, and the call is no longer pending.
appendToolResult(id) ==
  /\ \E k \in DOMAIN pending : pending[k] = id
  /\ guardLog' = Append(guardLog, GuardEntry("toolResult", id, FALSE))
  /\ pending' = SelectSeq(pending, LAMBDA c : c # id)
  /\ lastGuardOp' = "appendToolResult"
  /\ UNCHANGED <<envVars, loaderVars, routerVars, readVars, forgotten, loadsStarted>>

\* Variant of flushPendingToolResults: forgets the pending calls and records
\* nothing for them.
flushPendingToolResultsDropsThem ==
  /\ pending' = <<>>
  /\ lastGuardOp' = "flush"
  /\ UNCHANGED <<envVars, loaderVars, routerVars, readVars, guardLog, forgotten,
                 loadsStarted>>

\* guard.flushPendingToolResults(): one synthetic toolResult per pending
\* call, in the order of the calls, each recorded as any other message;
\* nothing is pending afterwards.
flushPendingToolResults ==
  /\ guardLog' = guardLog \o [k \in 1..Len(pending) |->
                                GuardEntry("toolResult", pending[k], TRUE)]
  /\ pending' = <<>>
  /\ lastGuardOp' = "flush"
  /\ UNCHANGED <<envVars, loaderVars, routerVars, readVars, forgotten, loadsStarted>>

\* A session manager behind the guard, in a process that loads the backend
\* through the shared loader.
GuardNext ==
  \/ \E id \in CallIds : appendAssistantToolCall(id)
  \/ \E id \in CallIds : appendToolResult(id)
  \/ flushPendingToolResults
  \/ ensureAeonLoaded
  \/ triggerAeonLoad
  \/ \E l \in inflight : LoadSettles(l)
  \/ InstanceChanges

GuardSpec == Init /\ [][GuardNext]_vars

\* --------------------------------------------------- the whole process
\* A process that holds both modules and never calls the test-only reset.
Next ==
  \/ ensureAeonLoaded
  \/ loadAeonMemoryAsync
  \/ triggerAeonLoad
  \/ \E l \in inflight : LoadSettles(l)
  \/ \E a \in awaits : AwaitResumes(a)
  \/ getAeonPlugin
  \/ /\ Len(writes) < MaxProcessWrites
     /\ \E sid \in SessionIds \cup {NoSession}, fault \in Faults : Write(sid, fault)
  \/ \E fault \in Faults : DeferredSettles(fault)
  \/ InstanceChanges

Spec == Init /\ [][Next]_vars

\* ------------------------------------------ the process under fairness
\* A process that loads through every strategy and writes through the
\* router, with an event loop that runs the reactions of every import()
\* promise once it has settled; an import() always settles. Nothing throws
\* during the writes, and callers that await a load are not followed after
\* their call: whether a load resolves depends on neither.
LiveNext ==
  \/ ensureAeonLoaded
  \/ loadAeonMemoryAsync
  \/ triggerAeonLoad
  \/ \E l \in inflight : LoadSettles(l)
  \/ /\ Len(writes) < MaxLiveWrites
     /\ \E sid \in SessionIds \cup {NoSession} : Write(sid, "none")
  \/ DeferredSettles("none")
  \/ InstanceChanges

ResolutionIsFair ==
  /\ WF_vars(\E l \in inflight : LoadSettles(l))
  /\ WF_vars(DeferredSettles("none"))

FairSpec == Init /\ [][LiveNext]_vars /\ ResolutionIsFair

\* ================================================================ claims
\* How often aeon.saveTurn was entered with message m, at call time or later.
SaveTurnCalls(m) == Cardinality({i \in DOMAIN saved : saved[i].message = m})

\* How often sessionManager.appendMessage was entered by write w.
AppendCalls(w) == IF w.appendCalled THEN 1 ELSE 0

\* Write w returned the identifier of the legacy entry that holds its message.
LandedInLegacy(w) ==
  /\ w.ok
  /\ Len(w.messageId) = 2
  /\ w.messageId[1] = "legacy"
  /\ w.messageId[2] \in DOMAIN legacy
  /\ legacy[w.messageId[2]] = w.message

\* The probe found no usable backend when write w was issued.
NoBackendAt(w) == ~Truthy(w.plugin) \/ w.instance # "available"

\* C1: for every write during which no collaborator raised, exactly one of
\* {saveTurn, legacy appendMessage} is invoked for the write's message, at
\* call time or later: never both, never neither.
C1_ExactlyOneBackendPerWrite ==
  \A i \in DOMAIN writes :
    writes[i].fault = "none" =>
      SaveTurnCalls(writes[i].message) + AppendCalls(writes[i]) = 1

\* C2: for every write issued while the probe yields no usable backend (and
\* during which nothing raised), the legacy store holds the message passed in
\* and saveTurn is never invoked for that message, at call time or later.
C2_NoBackendMeansLegacyOnly ==
  \A i \in DOMAIN writes :
    (NoBackendAt(writes[i]) /\ writes[i].fault = "none") =>
      /\ LandedInLegacy(writes[i])
      /\ SaveTurnCalls(writes[i].message) = 0

\* C3: for every write with sessionId set, issued when the factory is cached
\* and the instance is available (the legacy store opens, getInstance and
\* isAvailable return), saveTurn is called exactly once with the sessionId
\* and the message passed in, the legacy store receives nothing, and the
\* outcome is success with the synthesized identifier.
C3_AvailableBackendGetsTheWrite ==
  \A i \in DOMAIN writes :
    LET w == writes[i] IN
    (/\ w.sessionId # NoSession
     /\ Truthy(w.plugin)
     /\ w.instance = "available"
     /\ w.fault \notin {"open", "getInstance", "isAvailable"}) =>
      /\ SaveTurnCalls(w.message) = 1
      /\ \E k \in DOMAIN saved :
           /\ saved[k].sessionId = w.sessionId
           /\ saved[k].message = w.message
           /\ ~saved[k].deferred
      /\ ~w.appendCalled
      /\ \A k \in DOMAIN legacy : legacy[k] # w.message
      /\ w.ok
      /\ w.messageId = <<"aeon", w.sessionId>>

\* C4: every write with sessionId unset is handed to the legacy store and to
\* nothing else, whatever the state of the backend: saveTurn is never invoked
\* for it, only a failure of the legacy store itself keeps it out of the
\* store, and the store holds such writes in call order.
C4_NoSessionWritesGoToLegacyInOrder ==
  /\ \A i \in DOMAIN writes :
       LET w == writes[i] IN
       w.sessionId = NoSession =>
         /\ SaveTurnCalls(w.message) = 0
         /\ w.fault \in {"none", "open", "append"}
         /\ w.appendCalled <=> w.fault # "open"
         /\ w.fault = "none" => LandedInLegacy(w)
  /\ \A i, j \in DOMAIN writes :
       (/\ i < j
        /\ writes[i].sessionId = NoSession /\ writes[j].sessionId = NoSession
        /\ writes[i].ok /\ writes[j].ok) =>
         writes[i].messageId[2] < writes[j].messageId[2]

\* C4 witness: a write without sessionId landed in the legacy store, after an
\* earlier entry, although the factory was cached and the instance available.
C4_Witness ==
  \E i \in DOMAIN writes :
    /\ writes[i].sessionId = NoSession
    /\ writes[i].loadState = "resolved"
    /\ writes[i].plugin = Factory
    /\ writes[i].instance = "available"
    /\ LandedInLegacy(writes[i])
    /\ writes[i].messageId[2] = 2

\* C5: a write with sessionId set that is issued while the router's load is
\* pending does not wait for it: it is handed to the legacy store in the same
\* call, returns success with the legacy identifier unless the legacy store
\* raises, and is never saved to the backend, also not once the load resolves.
C5_PendingLoadWritesGoToLegacy ==
  \A i \in DOMAIN writes :
    LET w == writes[i] IN
    (w.sessionId # NoSession /\ w.loadState = "pending") =>
      /\ w.fault \in {"none", "open", "append"}
      /\ w.appendCalled <=> w.fault # "open"
      /\ w.fault = "none" => LandedInLegacy(w)
      /\ SaveTurnCalls(w.message) = 0

\* C5 witness: such a write is in the legacy store and the load has since
\* resolved to a factory whose instance is available.
C5_Witness ==
  \E i \in DOMAIN writes :
    /\ writes[i].sessionId # NoSession
    /\ writes[i].loadState = "pending"
    /\ LandedInLegacy(writes[i])
    /\ deferred.state = "done"
    /\ AeonMemoryPlugin = Factory
    /\ instance = "available"

\* C6: in a process that never resets the loader, a resolution of the module
\* is started at most once, whichever of ensureAeonLoaded,
\* loadAeonMemoryAsync, triggerAeonLoad and the router's first sessionId
\* write comes first.
C6_OneLoadAttemptPerProcess == loadsStarted <= 1

\* C7: no loading strategy raises, whatever resolving the module does:
\* every synchronous call returns normally, the promise of
\* loadAeonMemoryAsync fulfils, and unless the module resolved with its
\* export the cached factory is null.
C7_LoadingNeverRaises ==
  /\ ~lastCall.raised
  /\ resumed.settled # "rejected"
  /\ moduleKind # "ok" => _plugin = Null

\* C7 witness: the module throws while initialising; one epoch's load was
\* awaited through loadAeonMemoryAsync and fulfilled, the other epoch's load
\* was made by ensureAeonLoaded, which returned null.
C7_Witness ==
  /\ moduleKind = "initThrows"
  /\ loadsStarted = 2
  /\ inflight = {}
  /\ forgotten = {}
  /\ resumed.own /\ resumed.settled = "fulfilled"
  /\ lastCall = [op |-> "ensureAeonLoaded", raised |-> FALSE, ret |-> Null]

\* C8: no promise of a fire-and-forget load (the IIFE of triggerAeonLoad,
\* the import chain of the router's first sessionId write) settles as
\* rejected: no rejected promise is left without a handler.
C8_NoFloatingRejection == \A f \in forgotten : f.settled = "fulfilled"

\* C8 witness: the package is missing and both fire-and-forget loads have
\* settled.
C8_Witness ==
  /\ moduleKind = "missing"
  /\ \E f \in forgotten : f.of = "triggerAeonLoad"
  /\ \E f \in forgotten : f.of = "router"

\* C9: when a caller resumes from its await of loadAeonMemoryAsync, the load
\* attempt of that call's epoch has resolved and the cached plugin is the
\* value that load ends with.
C9_AwaitSeesResolvedLoad ==
  resumed.settled # "none" => (~resumed.pending /\ resumed.seen = resumed.final)

\* C10: between resets the value getAeonPlugin returns changes at most once:
\* only from null to the factory, only in a step in which a load resolves,
\* and once it is the factory it stays so until the next reset.
C10_PluginWrittenOnce ==
  [][epoch' = epoch =>
       /\ _plugin # Null => _plugin' = _plugin
       /\ _plugin' # _plugin =>
            /\ _plugin' = Factory
            /\ \/ inflight' # inflight
               \/ (~_loaded /\ lastCall'.op = "ensureAeonLoaded")]_vars

\* C11: once the load attempt of the shared loader has resolved, it stays
\* resolved, the cached value no longer changes, and every later call of
\* ensureAeonLoaded or getAeonPlugin and every caller resuming from
\* loadAeonMemoryAsync observes that value: the factory only if the module
\* resolved with its export, otherwise null.
C11_CallersConvergeOnFinalValue ==
  [][(_loaded /\ inflight = {}) =>
       /\ _plugin' = _plugin
       /\ _loaded' /\ inflight' = {}
       /\ lastCall' # lastCall =>
            (lastCall'.op = "triggerAeonLoad" \/ lastCall'.ret = _plugin)
       /\ resumed' # resumed => resumed'.seen = _plugin
       /\ _plugin \in {Null, Factory}
       /\ _plugin = Factory => moduleKind = "ok"
       /\ (moduleKind = "ok" /\ requireWorks) => _plugin = Factory]_vars

\* C11 witness: triggerAeonLoad started the load, it resolved to the factory,
\* and afterwards a caller resumed from loadAeonMemoryAsync and
\* ensureAeonLoaded returned, both seeing the factory.
C11_Witness ==
  /\ _loaded /\ inflight = {}
  /\ _plugin = Factory
  /\ \E f \in forgotten : f.of = "triggerAeonLoad"
  /\ resumed = [own |-> FALSE, settled |-> "fulfilled", pending |-> FALSE,
                seen |-> Factory, final |-> Factory]
  /\ lastCall = [op |-> "ensureAeonLoaded", raised |-> FALSE, ret |-> Factory]

\* C12: getAeonPlugin is pure: a call returns the value cached when it is
\* made, does not raise, starts no load and leaves _plugin, _loaded and the
\* loads in flight as they were.
C12_PeekIsPure ==
  [][(lastCall' # lastCall /\ lastCall'.op = "getAeonPlugin") =>
       /\ lastCall'.ret = _plugin
       /\ ~lastCall'.raised
       /\ UNCHANGED <<_plugin, _loaded, inflight, loadsStarted, epoch, awaits,
                      resumed, forgotten>>]_vars

\* C12 witness: getAeonPlugin was called before any loading strategy and
\* nothing has been attempted.
C12_Witness ==
  /\ lastCall = [op |-> "getAeonPlugin", raised |-> FALSE, ret |-> Null]
  /\ ~_loaded
  /\ loadsStarted = 0
  /\ epoch = 0

\* C13: when the factory is cached and getInstance throws during a write with
\* sessionId set, the failure is swallowed: the message is appended to the
\* legacy store and the write reports success with the legacy identifier.
C13_GetInstanceFailureFallsBack ==
  \A i \in DOMAIN writes :
    (/\ writes[i].sessionId # NoSession
     /\ Truthy(writes[i].plugin)
     /\ writes[i].fault = "getInstance") => LandedInLegacy(writes[i])

\* C14: a write reports failure only when the legacy store raised; when
\* getInstance, isAvailable or saveTurn throws, the write still succeeds and
\* its message is in the legacy store.
C14_OnlyLegacyFailuresSurface ==
  \A i \in DOMAIN writes :
    /\ ~writes[i].ok => writes[i].fault \in {"open", "append"}
    /\ writes[i].fault \in {"getInstance", "isAvailable", "saveTurn"} =>
         LandedInLegacy(writes[i])

\* C15: when the legacy open or append raises, the write returns ok false
\* with the underlying error and no messageId, and the append is not made
\* again: the message is not in the legacy store then or later.
C15_LegacyFailureIsReportedNotRetried ==
  \A i \in DOMAIN writes :
    LET w == writes[i] IN
    w.fault \in {"open", "append"} =>
      /\ ~w.ok
      /\ w.error = w.fault
      /\ w.messageId = <<>>
      /\ AppendCalls(w) <= 1
      /\ \A k \in DOMAIN legacy : legacy[k] # w.message

\* C15 witness: a write routed to the legacy store failed in appendMessage,
\* and a later write went through.
C15_Witness ==
  /\ Len(writes) = 2
  /\ writes[1].fault = "append" /\ writes[1].appendCalled /\ ~writes[1].ok
  /\ writes[2].ok

\* C16: a read that finds the factory cached and an available instance whose
\* transcript for the session is not empty returns that transcript, element
\* for element and in its order, asks getTranscript for exactly that
\* sessionId, and brings nothing of the legacy store into the result.
C16_NonEmptyTranscriptIsReturnedVerbatim ==
  [][lastRead' # lastRead =>
       LET sid == lastRead'.sessionId IN
       (/\ Truthy(_plugin)
        /\ instance = "available"
        /\ GetTranscript(sid) # <<>>) =>
          /\ lastRead'.result = GetTranscript(sid)
          /\ lastRead'.asked = sid
          /\ lastRead'.source = "aeon"]_vars

\* C16 witness: the backend holds two turns of the session, the legacy store
\* holds a message of it too, and the read returned the two turns.
C16_Witness ==
  /\ lastRead.source = "aeon"
  /\ lastRead.sessionId \in SessionIds
  /\ Len(lastRead.result) = 2
  /\ lastRead.writes = MaxReadWrites
  /\ legacy # <<>>

\* C17: a read made while the backend is absent, still loading or
\* unavailable, or whose backend transcript for the session is empty, returns
\* exactly what the legacy store holds for the session: an empty backend
\* answer is followed by a real legacy read and never hides legacy messages.
C17_FallsBackToLegacy ==
  [][lastRead' # lastRead =>
       LET sid == lastRead'.sessionId IN
       (\/ SharedLoadState # "resolved"
        \/ ~Truthy(_plugin)
        \/ instance # "available"
        \/ GetTranscript(sid) = <<>>) =>
          /\ lastRead'.result = ReadLegacy(sid)
          /\ lastRead'.source = "legacy"]_vars

\* C17 witness: the load has resolved to the factory, the instance is
\* available, getTranscript was asked and had nothing for the session, and
\* the read returned the messages of the legacy store.
C17_Witness ==
  /\ lastRead.loadState = "resolved"
  /\ lastRead.instance = "available"
  /\ lastRead.asked = lastRead.sessionId
  /\ lastRead.source = "legacy"
  /\ lastRead.result # <<>>

\* C18: two successive reads of the same session return the same sequence
\* when no write was issued and no turn was saved between them and the
\* instance is as it was, also when the first of the two started the load
\* and the load resolved before the second.
C18_ReadIsIdempotent ==
  [][(/\ lastRead' # lastRead
      /\ lastRead.source # "none"
      /\ lastRead'.sessionId = lastRead.sessionId
      /\ lastRead.writes = Len(writes)
      /\ lastRead.saves = Len(saved)
      /\ lastRead.instance = instance) =>
        lastRead'.result = lastRead.result]_vars

\* The positions of guardLog that hold an entry of the given kind for a call.
GuardPositions(role, id, synthetic) ==
  {k \in DOMAIN guardLog : /\ guardLog[k].role = role
                           /\ guardLog[k].id = id
                           /\ guardLog[k].synthetic = synthetic}

\* C19: a tool call appended through the guard and left unanswered gets
\* exactly one synthetic toolResult when flushPendingToolResults is called,
\* recorded after its assistant message and routed as any other message (to
\* the backend only if the factory is cached and the instance available);
\* nothing is pending after a flush; a call whose real result was appended
\* gets no synthetic one; and with the backend absent a single flushed call
\* leaves the legacy store with exactly [assistant, toolResult].
C19_FlushRecordsOneSyntheticResult ==
  /\ lastGuardOp = "flush" => pending = <<>>
  /\ \A k \in DOMAIN guardLog :
       guardLog[k].to = "aeon" <=>
         (Truthy(guardLog[k].plugin) /\ guardLog[k].instance = "available")
  /\ \A id \in CallIds :
       LET asst == GuardPositions("assistant", id, FALSE)
           real == GuardPositions("toolResult", id, FALSE)
           syn  == GuardPositions("toolResult", id, TRUE)
           isPending == \E k \in DOMAIN pending : pending[k] = id
       IN  /\ Cardinality(syn) <= 1
           /\ real # {} => syn = {}
           /\ \A r \in real \cup syn : \E a \in asst : a < r
           /\ (asst # {} /\ ~isPending) => Cardinality(real \cup syn) = 1
           /\ isPending => (asst # {} /\ real \cup syn = {})
  /\ (/\ lastGuardOp = "flush"
      /\ Cardinality(CallsAppended) = 1
      /\ \A id \in CallIds : GuardPositions("toolResult", id, FALSE) = {}
      /\ \A k \in DOMAIN guardLog : ~Truthy(guardLog[k].plugin)) =>
        /\ [k \in DOMAIN guardLog |-> guardLog[k].role] = <<"assistant", "toolResult">>
        /\ guardLog[2].synthetic /\ guardLog[2].id = guardLog[1].id
        /\ \A k \in 1..2 : guardLog[k].to = "legacy"

\* C19 witness: the backend is absent, call_2 was appended and flushed
\* without a result, and the store holds the assistant message and its
\* synthetic result.
C19_Witness ==
  /\ lastGuardOp = "flush"
  /\ _loaded /\ _plugin = Null /\ inflight = {}
  /\ Len(guardLog) = 2
  /\ guardLog[1].role = "assistant" /\ guardLog[1].id = "call_2"
  /\ guardLog[2].synthetic /\ guardLog[2].to = "legacy"

\* Every write with sessionId issued after the router's load resolved went
\* where the resolved factory and the instance's availability say.
ResolvedWritesFollowTheFactory ==
  \A i \in DOMAIN writes :
    LET w == writes[i] IN
    (w.sessionId # NoSession /\ w.loadState = "resolved") =>
      /\ ~Truthy(w.plugin) =>
           /\ w.fault \in {"none", "open", "append"}
           /\ w.appendCalled <=> w.fault # "open"
           /\ w.fault = "none" => LandedInLegacy(w)
           /\ SaveTurnCalls(w.message) = 0
      /\ (/\ Truthy(w.plugin)
          /\ w.instance = "available"
          /\ w.fault \in {"none", "saveTurn"}) =>
           /\ ~w.appendCalled
           /\ SaveTurnCalls(w.message) = 1
           /\ w.fault = "none" => (w.ok /\ w.messageId = <<"aeon", w.sessionId>>)

\* C20: once the router's load attempt has resolved, the decision is stable:
\* the cached factory no longer changes and no load is attempted again; if
\* it resolved to null every later write with sessionId goes to the legacy
\* store, and if it resolved to a factory every later write with sessionId
\* that finds the instance available goes to the backend and not to legacy.
C20_DecisionStableAfterResolution ==
  [][/\ ResolvedWritesFollowTheFactory'
     /\ RouterLoadState = "resolved" =>
          /\ RouterLoadState' = "resolved"
          /\ AeonMemoryPlugin' = AeonMemoryPlugin
          /\ deferred' = deferred
          /\ loadsStarted' = loadsStarted
          /\ forgotten' = forgotten]_vars

\* C20 witness: the first write started the load and went to the legacy
\* store, the load resolved to the factory, and the next write with sessionId
\* found the instance available and was saved to the backend only.
C20_Witness ==
  /\ Len(writes) = 2
  /\ writes[1].loadState = "notAttempted"
  /\ writes[2].loadState = "resolved"
  /\ writes[2].sessionId # NoSession
  /\ writes[2].plugin = Factory
  /\ writes[2].instance = "available"
  /\ writes[2].messageId = <<"aeon", writes[2].sessionId>>
  /\ ~writes[2].appendCalled
  /\ Len(legacy) = 1

\* Every write with sessionId that found the router's load resolved to the
\* factory and the instance available, and met no throw, was saved to the
\* backend and not appended to the legacy store.
ResolvedFactoryWritesAreEnhanced ==
  \A i \in DOMAIN writes :
    LET w == writes[i] IN
    (/\ w.sessionId # NoSession
     /\ w.loadState = "resolved"
     /\ Truthy(w.plugin)
     /\ w.instance = "available"
     /\ w.fault = "none") =>
       /\ w.messageId = <<"aeon", w.sessionId>>
       /\ ~w.appendCalled

C22_EnsureReturnsTheSameValue ==
  [][(lastCall.op = "ensureAeonLoaded" /\ lastCall'.op = "ensureAeonLoaded") =>
       lastCall'.ret = lastCall.ret]_vars

\* C23: in every reachable state of the shared loader a cached factory
\* implies that a load has been attempted since the last reset: while
\* _loaded is false, getAeonPlugin has nothing but null to return.
C23_FactoryImpliesAttempted ==
  _plugin # Null => _loaded

\* C24: a write that returned ok false has persisted nothing: its message
\* is not in the legacy store and the backend has stored no turn with it,
\* when the write returns and in every later state.
C24_FailedWritePersistsNothing ==
  \A i \in DOMAIN writes :
    ~writes[i].ok =>
      /\ \A k \in DOMAIN legacy : legacy[k] # writes[i].message
      /\ \A k \in DOMAIN saved :
           ~(saved[k].message = writes[i].message /\ saved[k].stored)

\* The messages of the writes with sessionId sid that returned ok, in the
\* order of the writes.
WrittenFor(sid) ==
  LET done == SelectSeq(writes, LAMBDA w : w.ok /\ w.sessionId = sid)
  IN  [k \in 1..Len(done) |-> done[k].message]

\* Sequence a is contained in sequence b, in b's order; the elements of a
\* are distinct.
ContainedInOrder(a, b) ==
  \E f \in [DOMAIN a -> DOMAIN b] :
    /\ \A k \in DOMAIN a : b[f[k]] = a[k]
    /\ \A j, k \in DOMAIN a : j < k => f[j] < f[k]

\* C25: a read of a session issued after the loads of the router and of the
\* shared loader have resolved returns every message that a write with that
\* sessionId wrote successfully before the read, in the order of the writes.
C25_ReadYourWrites ==
  [][(/\ lastRead' # lastRead
      /\ lastRead'.sessionId \in SessionIds
      /\ SharedLoadState = "resolved"
      /\ RouterLoadState = "resolved") =>
        ContainedInOrder(WrittenFor(lastRead'.sessionId), lastRead'.result)]_vars
====
